---- MODULE Spec2Model ----
\* A model of zarr_checksum/generators.py: the two lazy file enumerations
\* yield_files_s3 and yield_files_local, each a Python generator driven by a
\* consumer that advances it (next) or abandons it (close).
\*
\* Strings are sequences of one-character strings, so that prefix tests,
\* pathlib parsing, basename and strip are computed, not assumed.
EXTENDS Integers, Sequences, FiniteSets, TLC

\* ---------------------------------------------------------------- bounds

\* Largest number of objects in the bucket.
MaxKeys ==
    3

\* Largest number of entries the listing backend puts in one page.
MaxPage ==
    2

\* Largest number of regular files in the local tree.
MaxFiles ==
    3

\* How many times the consumer advances a sequence that has already ended.
MaxExtraAdvance ==
    1

\* ------------------------------------------------------ program constants

\* The buffer size of f.read(8192).
ChunkSize ==
    8192

\* ------------------------------------------------------------- strings

\* No exception.
None ==
    "None"

\* No continuation cursor (Python's None); a cursor is a one-element tuple.
NoToken ==
    <<>>

\* Byte value of a character (the listing backend orders keys by bytes).
Ord(c) ==
    CASE c = "\"" -> 34
      [] c = "."  -> 46
      [] c = "/"  -> 47
      [] c = "a"  -> 97
      [] c = "d"  -> 100
      [] c = "m"  -> 109
      [] c = "n"  -> 110
      [] c = "r"  -> 114
      [] c = "x"  -> 120
      [] OTHER    -> 255

RECURSIVE LexLess(_, _)
\* s < t in byte order.
LexLess(s, t) ==
    IF t = <<>> THEN FALSE
    ELSE IF s = <<>> THEN TRUE
    ELSE IF Head(s) = Head(t) THEN LexLess(Tail(s), Tail(t))
    ELSE Ord(Head(s)) < Ord(Head(t))

RECURSIVE SortKeys(_)
\* The members of S in ascending byte order.
SortKeys(S) ==
    IF S = {} THEN <<>>
    ELSE LET m == CHOOSE x \in S : \A y \in S : x = y \/ LexLess(x, y)
         IN  <<m>> \o SortKeys(S \ {m})

\* str.startswith
StartsWith(s, p) ==
    /\ Len(p) <= Len(s)
    /\ SubSeq(s, 1, Len(p)) = p

RECURSIVE SplitAcc(_, _, _)
SplitAcc(s, cur, acc) ==
    IF s = <<>> THEN Append(acc, cur)
    ELSE IF Head(s) = "/" THEN SplitAcc(Tail(s), <<>>, Append(acc, cur))
    ELSE SplitAcc(Tail(s), Append(cur, Head(s)), acc)

\* s.split("/")
Split(s) ==
    SplitAcc(s, <<>>, <<>>)

RECURSIVE JoinParts(_)
\* "/".join(parts)
JoinParts(parts) ==
    IF parts = <<>> THEN <<>>
    ELSE IF Len(parts) = 1 THEN parts[1]
    ELSE parts[1] \o <<"/">> \o JoinParts(Tail(parts))

RECURSIVE LStrip(_, _)
LStrip(s, c) ==
    IF s # <<>> /\ Head(s) = c THEN LStrip(Tail(s), c) ELSE s

RECURSIVE RStrip(_, _)
RStrip(s, c) ==
    IF s # <<>> /\ s[Len(s)] = c THEN RStrip(SubSeq(s, 1, Len(s) - 1), c) ELSE s

\* str.strip(c): every leading and trailing c removed.
Strip(s, c) ==
    RStrip(LStrip(s, c), c)

\* pathlib.Path(s) on POSIX: empty and "." components are dropped, ".." is kept,
\* a leading separator makes the path absolute.
PathOf(s) ==
    [abs   |-> s # <<>> /\ Head(s) = "/",
     parts |-> SelectSeq(Split(s), LAMBDA c : c # <<>> /\ c # <<".">>)]

\* str(path)
PathStr(p) ==
    IF p.abs THEN <<"/">> \o JoinParts(p.parts)
    ELSE IF p.parts = <<>> THEN <<".">>
    ELSE JoinParts(p.parts)

\* os.path.basename(Path(s)): what follows the last separator of str(Path(s)).
Basename(s) ==
    LET parts == Split(PathStr(PathOf(s)))
    IN  parts[Len(parts)]

\* Path.relative_to(other): other's components must lead p's components, one
\* for one; otherwise ValueError (ok = FALSE).
RelativeTo(p, q) ==
    IF /\ p.abs = q.abs
       /\ Len(q.parts) <= Len(p.parts)
       /\ SubSeq(p.parts, 1, Len(q.parts)) = q.parts
    THEN [ok |-> TRUE, parts |-> SubSeq(p.parts, Len(q.parts) + 1, Len(p.parts))]
    ELSE [ok |-> FALSE, parts |-> <<>>]

\* os.path.join(prefix, "")
JoinEmpty(p) ==
    IF p = <<>> \/ p[Len(p)] = "/" THEN p ELSE p \o <<"/">>


\* ------------------------------------------------------- the environment

\* Object keys a bucket may hold.  With prefix "r": keys under it ("r/a",
\* "r/d/a", "r/r/a"), a key with a doubled separator ("r//a"), a hidden name
\* ("r/.a"), a name on the exclusion list ("r/x"), and keys that share "r" only
\* as a leading string ("r./a" sorts before "r/", "rx/a" and "rx/x" after).
KeyUniverse ==
    { <<"r", "/", "a">>,
      <<"r", "/", "d", "/", "a">>,
      <<"r", "/", "r", "/", "a">>,
      <<"r", "/", "/", "a">>,
      <<"r", "/", ".", "a">>,
      <<"r", "/", "x">>,
      <<"r", ".", "/", "a">>,
      <<"r", "x", "/", "a">>,
      <<"r", "x", "/", "x">> }

\* Prefixes the caller may pass ("" is the default).
PrefixUniverse ==
    { <<>>, <<"r">> }

\* Exclusion lists the caller may pass ([] is the default).
ExcludedUniverse ==
    { {}, {<<"x">>} }

\* What the store holds for a key: the listing reports the size and the quoted
\* entity tag of the object's content.
ObjectOf(key) ==
    [Key |-> key, Size |-> Len(key), ETag |-> <<"\"">> \o key \o <<"\"">>]

\* The keys of the bucket that a listing with this Prefix covers, in key order.
Matching(keys, pfx) ==
    SelectSeq(keys, LAMBDA k : StartsWith(k, pfx))

\* list_objects_v2 of the backend: a page of at most n entries starting at the
\* cursor, and the cursor of the next page when entries remain.
ListObjectsV2(keys, req, n) ==
    LET all   == Matching(keys, req.Prefix)
        start == IF req.Token = NoToken THEN 1 ELSE req.Token[1]
        stop  == IF start + n - 1 < Len(all) THEN start + n - 1 ELSE Len(all)
    IN  [Contents |-> [i \in 1..(stop - start + 1) |-> ObjectOf(all[start + i - 1])],
         Next     |-> IF stop < Len(all) THEN <<stop + 1>> ELSE NoToken]

\* Regular files a local tree may hold, as paths relative to the root: a hidden
\* name (".a"), a name on the exclusion list ("x", "d/x"), nested files.
FileUniverse ==
    { <<"a">>,
      <<".", "a">>,
      <<"x">>,
      <<"d", "/", "a">>,
      <<"d", "/", "x">> }

\* Empty directories a local tree may hold besides the files' own directories:
\* none, one ("m"), or a nest of two ("m", "m/n").
EmptyDirsUniverse ==
    { {}, {<<"m">>}, {<<"m">>, <<"m", "/", "n">>} }

\* The byte length of a file's content: empty, shorter than one buffer, exactly
\* one buffer, one byte more than a buffer.
FileSize(f) ==
    CASE f = <<"a">>           -> 0
      [] f = <<".", "a">>      -> 5
      [] f = <<"x">>           -> ChunkSize
      [] f = <<"d", "/", "a">> -> ChunkSize + 1
      [] OTHER                 -> 0

\* os.path.dirname of a relative path ("" for a top-level name).
Dirname(p) ==
    LET parts == Split(p)
    IN  JoinParts(SubSeq(parts, 1, Len(parts) - 1))

RECURSIVE Ancestors(_)
\* Every directory above p, the root ("") excluded.
Ancestors(p) ==
    IF Dirname(p) = <<>> THEN {} ELSE {Dirname(p)} \cup Ancestors(Dirname(p))

\* Every directory of the tree, the root excluded.
AllDirs(t) ==
    t.dirs \cup UNION {Ancestors(f) : f \in t.files} \cup UNION {Ancestors(d) : d \in t.dirs}

RECURSIVE Walk(_, _)
RECURSIVE WalkEach(_, _)
\* os.walk from directory d, top down: the directory's own files, then each
\* subdirectory in turn.  A directory without files contributes nothing.
Walk(t, d) ==
    SortKeys({f \in t.files : Dirname(f) = d})
        \o WalkEach(t, SortKeys({s \in AllDirs(t) : Dirname(s) = d}))

WalkEach(t, ds) ==
    IF ds = <<>> THEN <<>> ELSE Walk(t, Head(ds)) \o WalkEach(t, Tail(ds))

\* list(NestedDirectoryStore(root).keys()): the root-relative path of every
\* file under the root.
StoreKeys(t) ==
    Walk(t, <<>>)

\* No open file.
NoHandle ==
    <<>>

\* ------------------------------------------------------------------ state

VARIABLES
    backend,             \* "s3" or "local": the enumeration this run is about
    bucket,              \* s3: the bucket's keys, in key order
    tree,                \* local: the files and empty directories under the root
    rootExists,          \* local: whether the root path exists now
    pc,                  \* position of the generator
    prefix,              \* argument prefix (s3)
    excluded_files,      \* argument excluded_files
    ignore_hidden,       \* argument ignore_hidden
    existsAtCall,        \* history: whether the root existed when the function was called
    continuation_token,  \* local variable of yield_files_s3
    options,             \* local variable of yield_files_s3
    res,                 \* local variable of yield_files_s3: the current page
    file_list,           \* local variable of yield_files_local
    size,                \* local variable of yield_files_local
    pos,                 \* read position in the open file
    md5sum,              \* local variable of yield_files_local: bytes hashed so far
    idx,                 \* position of the running for loop
    handle,              \* the file the generator holds open, or NoHandle
    inFlight,            \* a listing request was sent and has not returned
    requests,            \* history: every listing request sent
    responses,           \* history: every listing response received
    outcome,             \* history: every entry the loop considered, and its fate
    yielded,             \* history: the records handed to the consumer
    warnings,            \* history: number of logger.warning calls
    error,               \* the exception that ended the generator, or None
    extra                \* history: advances made after the generator ended

vars ==
    <<backend, bucket, tree, rootExists, pc, prefix, excluded_files, ignore_hidden,
      existsAtCall, continuation_token, options, res, file_list, size, pos, md5sum,
      idx, handle, inFlight, requests, responses, outcome, yielded, warnings,
      error, extra>>

env ==
    <<backend, bucket, tree>>

args ==
    <<prefix, excluded_files, ignore_hidden, existsAtCall>>

s3locals ==
    <<continuation_token, options, res>>

fslocals ==
    <<file_list, size, pos, md5sum>>

net ==
    <<inFlight, requests, responses>>

\* The buckets a run may start from.
Buckets ==
    {SortKeys(S) : S \in {T \in SUBSET KeyUniverse : Cardinality(T) <= MaxKeys}}

\* The local trees a run may start from.
Trees ==
    {[files |-> F, dirs |-> D] :
        F \in {T \in SUBSET FileUniverse : Cardinality(T) <= MaxFiles},
        D \in EmptyDirsUniverse}

Init ==
    /\ \/ /\ backend = "s3"
          /\ bucket \in Buckets
          /\ tree = [files |-> {}, dirs |-> {}]
          /\ rootExists = TRUE
       \/ /\ backend = "local"
          /\ bucket = <<>>
          /\ tree \in Trees
          /\ rootExists \in BOOLEAN
    /\ pc = "idle"
    /\ prefix = <<>>
    /\ excluded_files = {}
    /\ ignore_hidden = FALSE
    /\ existsAtCall = TRUE
    /\ continuation_token = NoToken
    /\ options = [Prefix |-> <<>>, Token |-> NoToken]
    /\ res = [Contents |-> <<>>, Next |-> NoToken]
    /\ file_list = <<>>
    /\ size = 0
    /\ pos = 0
    /\ md5sum = 0
    /\ idx = 1
    /\ handle = NoHandle
    /\ inFlight = FALSE
    /\ requests = <<>>
    /\ responses = <<>>
    /\ outcome = <<>>
    /\ yielded = <<>>
    /\ warnings = 0
    /\ error = None
    /\ extra = 0

\* ------------------------------------------------------------ the consumer

\* next(gen) on a generator that is new or suspended at its yield.
Advance ==
    /\ pc \in {"created", "suspended"}
    /\ pc' = IF pc = "created" THEN "start" ELSE "iter"
    /\ UNCHANGED <<env, rootExists, args, s3locals, fslocals, idx, handle, net,
                   outcome, yielded, warnings, error, extra>>

\* next(gen) on a generator that has ended (returned, raised, or was closed):
\* StopIteration, and nothing runs.
AdvanceEnded ==
    /\ pc \in {"done", "failed", "closed"}
    /\ extra < MaxExtraAdvance
    /\ extra' = extra + 1
    /\ UNCHANGED <<env, rootExists, args, pc, s3locals, fslocals, idx, handle, net,
                   outcome, yielded, warnings, error>>

\* gen.close(), or the consumer dropping the generator: GeneratorExit is raised
\* at the yield where it is suspended (a new generator just never starts).
Abandon ==
    /\ pc \in {"created", "suspended"}
    /\ pc' = "closed"
    /\ UNCHANGED <<env, rootExists, args, s3locals, fslocals, idx, handle, net,
                   outcome, yielded, warnings, error, extra>>

\* --------------------------------------------------------- yield_files_s3

\* Calling the generator function: the arguments are bound, no statement runs.
CallS3(p, ex, ih) ==
    /\ backend = "s3"
    /\ pc = "idle"
    /\ prefix' = p
    /\ excluded_files' = ex
    /\ ignore_hidden' = ih
    /\ pc' = "created"
    /\ UNCHANGED <<env, rootExists, existsAtCall, s3locals, fslocals, idx, handle,
                   net, outcome, yielded, warnings, error, extra>>

\* Lines 68-80: the locals are set and the probing request is sent.
S3SendProbe ==
    /\ backend = "s3"
    /\ pc = "start"
    /\ continuation_token' = NoToken
    /\ options' = [Prefix |-> prefix, Token |-> NoToken]
    /\ requests' = Append(requests, [Prefix |-> JoinEmpty(prefix), Token |-> NoToken])
    /\ inFlight' = TRUE
    /\ pc' = "probe_wait"
    /\ UNCHANGED <<env, rootExists, args, res, fslocals, idx, handle, responses,
                   outcome, yielded, warnings, error, extra>>

\* Lines 81-86 without the return: an empty probe goes on to the listing loop.
S3ProbeEmptyContinues ==
    /\ backend = "s3"
    /\ pc = "probe_wait"
    /\ \E n \in 1..MaxPage :
         LET r == ListObjectsV2(bucket, requests[Len(requests)], n)
         IN  /\ r.Contents = <<>>
             /\ responses' = Append(responses, r)
    /\ warnings' = warnings + 1
    /\ inFlight' = FALSE
    /\ pc' = "fetch"
    /\ UNCHANGED <<env, rootExists, args, s3locals, fslocals, idx, handle, requests,
                   outcome, yielded, error, extra>>

\* Lines 81-86: the probe has no "Contents": warn and return.
S3ProbeEmpty ==
    /\ backend = "s3"
    /\ pc = "probe_wait"
    /\ \E n \in 1..MaxPage :
         LET r == ListObjectsV2(bucket, requests[Len(requests)], n)
         IN  /\ r.Contents = <<>>
             /\ responses' = Append(responses, r)
    /\ warnings' = warnings + 1
    /\ inFlight' = FALSE
    /\ pc' = "done"
    /\ UNCHANGED <<env, rootExists, args, s3locals, fslocals, idx, handle, requests,
                   outcome, yielded, error, extra>>

\* Line 81: the probe has "Contents": go on to the listing loop.
S3ProbeFound ==
    /\ backend = "s3"
    /\ pc = "probe_wait"
    /\ \E n \in 1..MaxPage :
         LET r == ListObjectsV2(bucket, requests[Len(requests)], n)
         IN  /\ r.Contents # <<>>
             /\ responses' = Append(responses, r)
    /\ inFlight' = FALSE
    /\ pc' = "fetch"
    /\ UNCHANGED <<env, rootExists, args, s3locals, fslocals, idx, handle, requests,
                   outcome, yielded, warnings, error, extra>>

\* client.list_objects_v2 raises (transport or authorization failure): the
\* exception leaves the generator.
S3TransportFailure ==
    /\ backend = "s3"
    /\ pc \in {"probe_wait", "fetch_wait"}
    /\ inFlight' = FALSE
    /\ error' = "TransportError"
    /\ pc' = "failed"
    /\ UNCHANGED <<env, rootExists, args, s3locals, fslocals, idx, handle, requests,
                   responses, outcome, yielded, warnings, extra>>

\* Lines 90-91 without the assignment: the cursor is never put in the request.
NextOptionsNoCursor(opts, tok) ==
    opts

\* Lines 90-91: the cursor of the previous response goes into the request.
NextOptions(opts, tok) ==
    IF tok # NoToken THEN [opts EXCEPT !.Token = tok] ELSE opts

\* Lines 89-94: one listing request is sent.
S3Fetch ==
    /\ backend = "s3"
    /\ pc = "fetch"
    /\ Len(requests) <= MaxKeys + 1
    /\ options' = NextOptions(options, continuation_token)
    /\ requests' = Append(requests, options')
    /\ inFlight' = TRUE
    /\ pc' = "fetch_wait"
    /\ UNCHANGED <<env, rootExists, args, continuation_token, res, fslocals, idx,
                   handle, responses, outcome, yielded, warnings, error, extra>>

\* Line 94: the response arrives, the for loop of line 96 starts on it.
S3Receive ==
    /\ backend = "s3"
    /\ pc = "fetch_wait"
    /\ \E n \in 1..MaxPage :
         /\ res' = ListObjectsV2(bucket, requests[Len(requests)], n)
         /\ responses' = Append(responses, res')
    /\ idx' = 1
    /\ inFlight' = FALSE
    /\ pc' = "iter"
    /\ UNCHANGED <<env, rootExists, args, continuation_token, options, fslocals,
                   handle, requests, outcome, yielded, warnings, error, extra>>

\* Lines 98-101 with the hidden rule skipped whenever an exclusion list is given.
S3RejectedEitherOr(filename) ==
    IF excluded_files # {} THEN filename \in excluded_files
    ELSE ignore_hidden /\ StartsWith(filename, <<".">>)

\* Lines 98-101: the two filter rules of yield_files_s3.
S3Rejected(filename) ==
    \/ filename \in excluded_files
    \/ ignore_hidden /\ StartsWith(filename, <<".">>)

\* Line 103: Path(obj["Key"]).relative_to(prefix)
S3Relative(key) ==
    RelativeTo(PathOf(key), PathOf(prefix))

\* The object the for loop of line 96 is at.
S3Obj ==
    res.Contents[idx]

\* Lines 97-101: the entry is filtered out.
S3Skip ==
    /\ backend = "s3"
    /\ pc = "iter"
    /\ idx <= Len(res.Contents)
    /\ S3Rejected(Basename(S3Obj.Key))
    /\ outcome' = Append(outcome, [key |-> S3Obj.Key, result |-> "skipped"])
    /\ idx' = idx + 1
    /\ UNCHANGED <<env, rootExists, args, pc, s3locals, fslocals, handle, net,
                   yielded, warnings, error, extra>>

\* Lines 102-106: the record is built and handed to the consumer.
S3Yield ==
    /\ backend = "s3"
    /\ pc = "iter"
    /\ idx <= Len(res.Contents)
    /\ ~S3Rejected(Basename(S3Obj.Key))
    /\ S3Relative(S3Obj.Key).ok
    /\ yielded' = Append(yielded, [path   |-> S3Relative(S3Obj.Key).parts,
                                   size   |-> S3Obj.Size,
                                   digest |-> Strip(S3Obj.ETag, "\"")])
    /\ outcome' = Append(outcome, [key |-> S3Obj.Key, result |-> "yielded"])
    /\ idx' = idx + 1
    /\ pc' = "suspended"
    /\ UNCHANGED <<env, rootExists, args, s3locals, fslocals, handle, net,
                   warnings, error, extra>>

\* Line 103: relative_to raises ValueError, which leaves the generator.
S3PrefixMismatch ==
    /\ backend = "s3"
    /\ pc = "iter"
    /\ idx <= Len(res.Contents)
    /\ ~S3Rejected(Basename(S3Obj.Key))
    /\ ~S3Relative(S3Obj.Key).ok
    /\ outcome' = Append(outcome, [key |-> S3Obj.Key, result |-> "error"])
    /\ error' = "ValueError"
    /\ pc' = "failed"
    /\ UNCHANGED <<env, rootExists, args, s3locals, fslocals, idx, handle, net,
                   yielded, warnings, extra>>

\* Lines 109-111: the page is exhausted; stop unless it carried a cursor.
S3PageEnd ==
    /\ backend = "s3"
    /\ pc = "iter"
    /\ idx > Len(res.Contents)
    /\ continuation_token' = res.Next
    /\ pc' = IF res.Next = NoToken THEN "done" ELSE "fetch"
    /\ UNCHANGED <<env, rootExists, args, options, res, fslocals, idx, handle, net,
                   outcome, yielded, warnings, error, extra>>

\* ------------------------------------------------------ yield_files_local

\* Calling the generator function: the arguments are bound, no statement runs
\* (not even the existence test of line 126).
CallLocal(ex, ih) ==
    /\ backend = "local"
    /\ pc = "idle"
    /\ excluded_files' = ex
    /\ ignore_hidden' = ih
    /\ existsAtCall' = rootExists
    /\ pc' = "created"
    /\ UNCHANGED <<env, rootExists, prefix, s3locals, fslocals, idx, handle, net,
                   outcome, yielded, warnings, error, extra>>

\* Between the call and the first advance the caller, or anyone else, creates
\* the root directory with its content.
EnvCreateRoot ==
    /\ backend = "local"
    /\ pc = "created"
    /\ ~rootExists
    /\ ~existsAtCall
    /\ rootExists' = TRUE
    /\ UNCHANGED <<env, args, pc, s3locals, fslocals, idx, handle, net, outcome,
                   yielded, warnings, error, extra>>

\* Between the call and the first advance the root directory is removed.
EnvRemoveRoot ==
    /\ backend = "local"
    /\ pc = "created"
    /\ rootExists
    /\ existsAtCall
    /\ rootExists' = FALSE
    /\ UNCHANGED <<env, args, pc, s3locals, fslocals, idx, handle, net, outcome,
                   yielded, warnings, error, extra>>

\* Lines 125-127: the root does not exist: raise.
LocalRootMissing ==
    /\ backend = "local"
    /\ pc = "start"
    /\ ~rootExists
    /\ error' = "PathDoesNotExist"
    /\ pc' = "failed"
    /\ UNCHANGED <<env, rootExists, args, s3locals, fslocals, idx, handle, net,
                   outcome, yielded, warnings, extra>>

\* Lines 125-136: the root exists: the whole file list is built.
LocalDiscover ==
    /\ backend = "local"
    /\ pc = "start"
    /\ rootExists
    /\ file_list' = StoreKeys(tree)
    /\ idx' = 1
    /\ pc' = "iter"
    /\ UNCHANGED <<env, rootExists, args, s3locals, size, pos, md5sum, handle, net,
                   outcome, yielded, warnings, error, extra>>

\* Lines 141-149 with the hidden test not guarded by ignore_hidden.
LocalRejectedAlwaysHidden(filename) ==
    \/ excluded_files # {} /\ filename \in excluded_files
    \/ StartsWith(filename, <<".">>)

\* Lines 141-149: the two filter rules of yield_files_local.
LocalRejected(filename) ==
    \/ excluded_files # {} /\ filename \in excluded_files
    \/ ignore_hidden /\ StartsWith(filename, <<".">>)

\* The file the for loop of line 137 is at.
LocalFile ==
    file_list[idx]

\* Lines 138-149: the file is filtered out.
LocalSkip ==
    /\ backend = "local"
    /\ pc = "iter"
    /\ idx <= Len(file_list)
    /\ LocalRejected(Basename(LocalFile))
    /\ outcome' = Append(outcome, [key |-> LocalFile, result |-> "skipped"])
    /\ idx' = idx + 1
    /\ UNCHANGED <<env, rootExists, args, pc, s3locals, fslocals, handle, net,
                   yielded, warnings, error, extra>>

\* Lines 153-154: stat() gives the size.
LocalStat ==
    /\ backend = "local"
    /\ pc = "iter"
    /\ idx <= Len(file_list)
    /\ ~LocalRejected(Basename(LocalFile))
    /\ size' = FileSize(LocalFile)
    /\ pc' = "open"
    /\ UNCHANGED <<env, rootExists, args, s3locals, file_list, pos, md5sum, idx,
                   handle, net, outcome, yielded, warnings, error, extra>>

\* Line 154: stat() raises OSError, which leaves the generator.
LocalStatFails ==
    /\ backend = "local"
    /\ pc = "iter"
    /\ idx <= Len(file_list)
    /\ ~LocalRejected(Basename(LocalFile))
    /\ outcome' = Append(outcome, [key |-> LocalFile, result |-> "error"])
    /\ error' = "OSError"
    /\ pc' = "failed"
    /\ UNCHANGED <<env, rootExists, args, s3locals, fslocals, idx, handle, net,
                   yielded, warnings, extra>>

\* Lines 157-158: a fresh md5 state, and the with statement opens the file.
LocalOpen ==
    /\ backend = "local"
    /\ pc = "open"
    /\ md5sum' = 0
    /\ pos' = 0
    /\ handle' = LocalFile
    /\ pc' = "read"
    /\ UNCHANGED <<env, rootExists, args, s3locals, file_list, size, idx, net,
                   outcome, yielded, warnings, error, extra>>

\* Line 158: open() raises OSError, which leaves the generator.
LocalOpenFails ==
    /\ backend = "local"
    /\ pc = "open"
    /\ outcome' = Append(outcome, [key |-> LocalFile, result |-> "error"])
    /\ error' = "OSError"
    /\ pc' = "failed"
    /\ UNCHANGED <<env, rootExists, args, s3locals, fslocals, idx, handle, net,
                   yielded, warnings, extra>>

\* Lines 159-160: f.read(8192) returns a non-empty chunk, which is hashed.
LocalReadChunk ==
    /\ backend = "local"
    /\ pc = "read"
    /\ pos < FileSize(handle)
    /\ LET n == IF FileSize(handle) - pos < ChunkSize
                THEN FileSize(handle) - pos ELSE ChunkSize
       IN  /\ pos' = pos + n
           /\ md5sum' = md5sum + n
    /\ UNCHANGED <<env, rootExists, args, pc, s3locals, file_list, size, idx,
                   handle, net, outcome, yielded, warnings, error, extra>>

\* Line 159 failing, caught by a handler that goes on with the next file.
LocalReadFailsResumes ==
    /\ backend = "local"
    /\ pc = "read"
    /\ handle' = NoHandle
    /\ outcome' = Append(outcome, [key |-> LocalFile, result |-> "error"])
    /\ error' = "OSError"
    /\ idx' = idx + 1
    /\ pc' = "iter"
    /\ UNCHANGED <<env, rootExists, args, s3locals, fslocals, net, yielded,
                   warnings, extra>>

\* Line 159 failing with the file opened outside a with statement.
LocalReadFailsLeaks ==
    /\ backend = "local"
    /\ pc = "read"
    /\ outcome' = Append(outcome, [key |-> LocalFile, result |-> "error"])
    /\ error' = "OSError"
    /\ pc' = "failed"
    /\ UNCHANGED <<env, rootExists, args, s3locals, fslocals, idx, handle, net,
                   yielded, warnings, extra>>

\* Line 159: f.read raises OSError; the with statement closes the file and the
\* exception leaves the generator.
LocalReadFails ==
    /\ backend = "local"
    /\ pc = "read"
    /\ handle' = NoHandle
    /\ outcome' = Append(outcome, [key |-> LocalFile, result |-> "error"])
    /\ error' = "OSError"
    /\ pc' = "failed"
    /\ UNCHANGED <<env, rootExists, args, s3locals, fslocals, idx, net, yielded,
                   warnings, extra>>

\* Lines 159-167: f.read returns b"", the with statement closes the file, the
\* record is built and handed to the consumer.
LocalYield ==
    /\ backend = "local"
    /\ pc = "read"
    /\ pos = FileSize(handle)
    /\ handle' = NoHandle
    /\ yielded' = Append(yielded, [path   |-> PathOf(LocalFile).parts,
                                   size   |-> size,
                                   digest |-> <<"md5", LocalFile, md5sum>>])
    /\ outcome' = Append(outcome, [key |-> LocalFile, result |-> "yielded"])
    /\ idx' = idx + 1
    /\ pc' = "suspended"
    /\ UNCHANGED <<env, rootExists, args, s3locals, fslocals, net, warnings,
                   error, extra>>

\* Line 137: the file list is exhausted.
LocalEnd ==
    /\ backend = "local"
    /\ pc = "iter"
    /\ idx > Len(file_list)
    /\ pc' = "done"
    /\ UNCHANGED <<env, rootExists, args, s3locals, fslocals, idx, handle, net,
                   outcome, yielded, warnings, error, extra>>

\* ------------------------------------------------------------------ system

Next ==
    \/ \E p \in PrefixUniverse, ex \in ExcludedUniverse, ih \in BOOLEAN : CallS3(p, ex, ih)
    \/ \E ex \in ExcludedUniverse, ih \in BOOLEAN : CallLocal(ex, ih)
    \/ Advance
    \/ AdvanceEnded
    \/ Abandon
    \/ S3SendProbe
    \/ S3ProbeEmpty
    \/ S3ProbeFound
    \/ S3TransportFailure
    \/ S3Fetch
    \/ S3Receive
    \/ S3Skip
    \/ S3Yield
    \/ S3PrefixMismatch
    \/ S3PageEnd
    \/ EnvCreateRoot
    \/ EnvRemoveRoot
    \/ LocalRootMissing
    \/ LocalDiscover
    \/ LocalSkip
    \/ LocalStat
    \/ LocalStatFails
    \/ LocalOpen
    \/ LocalOpenFails
    \/ LocalReadChunk
    \/ LocalReadFails
    \/ LocalYield
    \/ LocalEnd

Spec ==
    Init /\ [][Next]_vars


\* ----------------------------------------------------------- vocabulary

\* The filter rule as stated: the base name is on the exclusion list, or hidden
\* files are ignored and the base name starts with a period.
FilterRejects(key) ==
    \/ Basename(key) \in excluded_files
    \/ ignore_hidden /\ Head(Basename(key)) = "."

RECURSIVE FlatKeys(_)
\* The keys of a sequence of pages, in page order then intra-page order.
FlatKeys(pages) ==
    IF pages = <<>> THEN <<>>
    ELSE [i \in 1..Len(Head(pages).Contents) |-> Head(pages).Contents[i].Key]
             \o FlatKeys(Tail(pages))

\* The responses to the listing requests (the first response is the probe's).
ListingResponses ==
    SubSeq(responses, 2, Len(responses))

\* The entries that were handed to the consumer, in order.
YieldedKeys ==
    LET ys == SelectSeq(outcome, LAMBDA o : o.result = "yielded")
    IN  [i \in 1..Len(ys) |-> ys[i].key]

\* The record yielded for the i-th considered entry (whose fate is "yielded").
RecordOf(i) ==
    yielded[Len(SelectSeq(SubSeq(outcome, 1, i), LAMBDA o : o.result = "yielded"))]

\* The key, read as a path, lies under the prefix, read as a path.
UnderPrefix(key) ==
    LET k == PathOf(key).parts
        q == PathOf(prefix).parts
    IN  /\ Len(q) <= Len(k)
        /\ \A i \in 1..Len(q) : k[i] = q[i]

\* The generator is where the consumer sees it: not yet started, suspended at
\* its yield, or ended.
AtRest ==
    pc \in {"idle", "created", "suspended", "done", "failed", "closed"}

\* ------------------------------------------------------------------ claims

\* C1: once the probe has succeeded, every listing request after the first
\* carries exactly the cursor of the response before it, no request follows a
\* response without a cursor, and the entries considered are the entries of the
\* pages, each exactly once and in page order then intra-page order; when the
\* enumeration ends normally they are the whole listing under the prefix.
C1_Pagination ==
    backend = "s3" =>
        /\ \A i \in 3..Len(requests) :
             /\ responses[i - 1].Next # NoToken
             /\ requests[i].Token = responses[i - 1].Next
        /\ Len(outcome) <= Len(FlatKeys(ListingResponses))
        /\ \A i \in 1..Len(outcome) : outcome[i].key = FlatKeys(ListingResponses)[i]
        /\ pc \in {"fetch", "fetch_wait", "done"}
             => Len(outcome) = Len(FlatKeys(ListingResponses))
        /\ (pc = "done" /\ Len(responses) >= 2)
             => FlatKeys(ListingResponses) = Matching(bucket, prefix)

\* C1 witness: an enumeration of three entries over at least two pages ended.
C1_Witness ==
    /\ backend = "s3"
    /\ pc = "done"
    /\ Len(responses) >= 3
    /\ Len(outcome) = 3

\* C2 as stated: whenever the probe found an entry and no transport failure
\* occurred, the drained enumeration has ended normally with exactly one record
\* for each unfiltered object whose key starts with the prefix and a separator.
C2_EnumeratesPrefix ==
    ( /\ backend = "s3"
      /\ pc \in {"done", "failed"}
      /\ Len(responses) >= 1
      /\ responses[1].Contents # <<>>
      /\ error # "TransportError" )
    => /\ pc = "done"
       /\ \A n \in 1..Len(bucket) :
            (StartsWith(bucket[n], JoinEmpty(prefix)) /\ ~FilterRejects(bucket[n]))
            => Cardinality({i \in 1..Len(YieldedKeys) : YieldedKeys[i] = bucket[n]}) = 1

\* C3: when the probe returns no entries the enumeration ends at once as an
\* empty sequence: no record, no error, one warning, and the probe (with the
\* prefix suffixed by the separator) stays the only request.
C3_EmptyProbe ==
    ( /\ backend = "s3"
      /\ Len(responses) >= 1
      /\ responses[1].Contents = <<>> )
    => /\ pc = "done"
       /\ yielded = <<>>
       /\ outcome = <<>>
       /\ error = None
       /\ warnings = 1
       /\ ~inFlight
       /\ Len(requests) = 1
       /\ prefix # <<>> => requests[1].Prefix = prefix \o <<"/">>

\* C3 witness: the probe of a non-empty bucket came back empty, and the
\* consumer advanced once more.
C3_Witness ==
    /\ backend = "s3"
    /\ Len(responses) >= 1
    /\ responses[1].Contents = <<>>
    /\ bucket # <<>>
    /\ extra = 1

\* C4: in both enumerations an entry is skipped if and only if its base name is
\* on the exclusion list or hidden files are ignored and it starts with a
\* period; a rejected entry is never yielded and never raises, and at a normal
\* end every entry that was not rejected has been yielded.
C4_Filter ==
    /\ \A i \in 1..Len(outcome) :
         (outcome[i].result = "skipped") <=> FilterRejects(outcome[i].key)
    /\ Len(yielded) = Len(YieldedKeys)
    /\ (pc = "done" /\ backend = "local")
         => YieldedKeys = SelectSeq(StoreKeys(tree), LAMBDA k : ~FilterRejects(k))
    /\ (pc = "done" /\ backend = "s3" /\ Len(responses) >= 2)
         => YieldedKeys = SelectSeq(Matching(bucket, prefix), LAMBDA k : ~FilterRejects(k))

\* C4 witness: with both rules configured, an enumeration ended having skipped
\* an excluded name and a hidden name and yielded another entry.
C4_Witness ==
    /\ pc = "done"
    /\ excluded_files # {}
    /\ ignore_hidden
    /\ yielded # <<>>
    /\ \E i \in 1..Len(outcome) :
         outcome[i].result = "skipped" /\ Basename(outcome[i].key) \in excluded_files
    /\ \E i \in 1..Len(outcome) :
         outcome[i].result = "skipped" /\ Basename(outcome[i].key) \notin excluded_files

\* The record yielded for the i-th considered entry is the one the entry calls
\* for: putting the prefix back in front of its path gives the key's path, no
\* component is empty, and size and digest are the listed Size and the listed
\* ETag without its quotes.
C5_RecordRight(i) ==
    LET rec == RecordOf(i)
        obj == ObjectOf(outcome[i].key)
    IN  /\ PathOf(prefix).parts \o rec.path = PathOf(outcome[i].key).parts
        /\ \A j \in 1..Len(rec.path) : rec.path[j] # <<>>
        /\ rec.size = obj.Size
        /\ <<"\"">> \o rec.digest \o <<"\"">> = obj.ETag

\* C5 as stated: every listed key under the prefix that is emitted has the
\* right record, and every listed key not under the prefix halts the
\* enumeration with an error at that entry.
C5_Original ==
    backend = "s3" =>
        \A i \in 1..Len(outcome) :
            IF UnderPrefix(outcome[i].key)
            THEN outcome[i].result = "yielded" => C5_RecordRight(i)
            ELSE /\ outcome[i].result = "error"
                 /\ i = Len(outcome)
                 /\ pc = "failed"

\* What the code does instead of C5: a listed key rejected by the filter is
\* skipped without error, under the prefix or not; a listed key that passes the
\* filter is emitted with the right record if it is under the prefix, and
\* otherwise halts the enumeration with an error at that entry.
C5_AsImplemented ==
    backend = "s3" =>
        \A i \in 1..Len(outcome) :
            IF FilterRejects(outcome[i].key)
            THEN outcome[i].result = "skipped"
            ELSE IF UnderPrefix(outcome[i].key)
            THEN outcome[i].result = "yielded" /\ C5_RecordRight(i)
            ELSE /\ outcome[i].result = "error"
                 /\ i = Len(outcome)
                 /\ pc = "failed"
                 /\ error = "ValueError"

\* C6: with no filters, a drained yield_files_local has yielded exactly one
\* record per regular file of the tree, with its size and the digest of its
\* whole content, and no record for a directory, empty or not.
C6_LocalCompleteness ==
    ( /\ backend = "local"
      /\ pc = "done"
      /\ excluded_files = {}
      /\ ~ignore_hidden )
    => /\ Len(yielded) = Cardinality(tree.files)
       /\ \A f \in tree.files :
            \E i \in 1..Len(yielded) :
                /\ yielded[i].path = Split(f)
                /\ yielded[i].size = FileSize(f)
                /\ yielded[i].digest = <<"md5", f, FileSize(f)>>
       /\ \A i \in 1..Len(yielded) : JoinParts(yielded[i].path) \notin AllDirs(tree)

\* C6 witness: a tree with a hidden file, a nested file and a nest of empty
\* directories was enumerated to the end without filters.
C6_Witness ==
    /\ backend = "local"
    /\ pc = "done"
    /\ excluded_files = {}
    /\ ~ignore_hidden
    /\ Cardinality(tree.dirs) = 2
    /\ Len(yielded) = 3
    /\ <<".", "a">> \in tree.files
    /\ <<"d", "/", "a">> \in tree.files

\* C7 as stated: whether yield_files_local fails with the root-not-found error
\* is decided by the existence of the root when the function was called, and
\* then nothing is discovered or yielded.
C7_RootCheckedAtCall ==
    ( /\ backend = "local"
      /\ pc \in {"iter", "open", "read", "suspended", "done", "failed"} )
    => /\ (error = "PathDoesNotExist") <=> ~existsAtCall
       /\ ~existsAtCall => (yielded = <<>> /\ outcome = <<>> /\ file_list = <<>>)

\* C8: when stat, open or read fails for a file, the enumeration is over: no
\* record exists for that file, the records yielded before it stay as they
\* are, and no later advance considers or yields anything.
C8_ReadFailureAborts ==
    /\ [](( backend = "local" /\ error = "OSError" )
          => /\ pc = "failed"
             /\ outcome[Len(outcome)].result = "error"
             /\ Len(yielded) = Len(YieldedKeys)
             /\ \A i \in 1..Len(yielded) :
                  yielded[i].path # PathOf(outcome[Len(outcome)].key).parts)
    /\ [][( backend = "local" /\ error = "OSError" )
          => (pc' = "failed" /\ yielded' = yielded /\ outcome' = outcome)]_vars

\* C8 witness: after a record was yielded a later file failed, and the consumer
\* advanced the ended sequence once more.
C8_Witness ==
    /\ backend = "local"
    /\ error = "OSError"
    /\ yielded # <<>>
    /\ extra = 1

\* C9: whenever the generator is not running (new, suspended at a yield, ended
\* normally, ended by an error, or abandoned by the consumer) it holds no open
\* file and no listing request is in flight.
C9_NothingHeld ==
    AtRest => (handle = NoHandle /\ ~inFlight)

\* C9 witness: the consumer abandoned the sequence after taking a record.
C9_Witness ==
    /\ pc = "closed"
    /\ yielded # <<>>
    /\ handle = NoHandle

\* C10 as stated: no two records yielded in one pass share a path.
C10_UniquePaths ==
    \A i, j \in 1..Len(yielded) :
        i # j => yielded[i].path # yielded[j].path

====
